---- MODULE Spec2Model ----
(***************************************************************************)
(* ST7789V display driver (src/st7789v.py) with its XL9555 GPIO expander   *)
(* collaborator (src/xl9555.py).                                           *)
(*                                                                         *)
(* The driver is single-threaded and blocking, so every public method is   *)
(* one atomic action.  A method body is an operator on a "driver record"   *)
(* st; the statements of the body are applied in source order, and every   *)
(* primitive step is skipped once st.err records a raised exception, which *)
(* is how Python unwinds the call.  st.log is the trace of the externally  *)
(* visible events of the call (line writes, bus writes, expander writes).  *)
(***************************************************************************)
EXTENDS Integers, Sequences, FiniteSets, TLC

\* ------------------------------------------------------------------ bounds
MaxPixels == 4            \* panels of at most MaxPixels pixels (240x320 on the board)
MaxChunkPixels == 3       \* chunk sizes 2, 4, .. 2*MaxChunkPixels bytes
MaxFailAt == 2            \* the bus may fail at its 1st..MaxFailAt-th write
MaxFailAny == 16          \* the same, deep enough for every write of a call
MaxRot == 4               \* rotation arguments -MaxNeg..MaxRot
MaxNeg == 1               \* arguments reach MaxNeg below zero

\* ------------------------------------------------------- program constants
ST7789_SLPOUT == 17       \* 0x11
ST7789_INVON  == 33       \* 0x21
ST7789_DISPON == 41       \* 0x29
ST7789_CASET  == 42       \* 0x2A
ST7789_RASET  == 43       \* 0x2B
ST7789_RAMWR  == 44       \* 0x2C
ST7789_COLMOD == 58       \* 0x3A
ST7789_MADCTL == 54       \* 0x36
COLOR_BLACK   == 0
REG_INPUT_PORT0  == 0
REG_OUTPUT_PORT0 == 2
REG_CONFIG_PORT0 == 6
P00 == 0
P01 == 1
P10 == 8
P11 == 9
P14 == 12                 \* KEY3
P15 == 13                 \* KEY2
P16 == 14                 \* KEY1
P17 == 15                 \* KEY0
pin_rst == 10
pin_bl  == 11

\* The chunk size of show() is 512 bytes in the source; frames here are a
\* few bytes long, so the chunk is scaled down to the even sizes below, which
\* both divide and do not divide the frame length.
ChunkSizes == {2 * k : k \in 1..MaxChunkPixels}

Colors == {0, 4660}                   \* 0x0000, 0x1234
\* (origin, extent) pairs handed to set_window on the x and on the y axis:
\* the spec's example (10, 20, 30, 40), an empty and a one-pixel window, one
\* crossing a byte boundary, the last 16-bit coordinate, one past it, and a
\* negative origin
WindowXSpans == {<<10, 30>>, <<0, 0>>, <<255, 2>>, <<65535, 2>>}
WindowYSpans == {<<20, 40>>, <<0, 1>>, <<65535, 1>>, <<-1, 1>>}
\* (origin, extent) pairs handed to fill_rect on an axis of size d: the
\* whole axis, clipped at the low edge, at the high edge, empty, negative
\* extent, and entirely outside on either side
RectSpans(d) == {<<0, d>>, <<-MaxNeg, MaxNeg + 1>>, <<1, d>>, <<0, 0>>,
                 <<1, -MaxNeg>>, <<-MaxNeg - 1, 1>>, <<d, 1>>}
\* the panel sizes
Dims == {wh \in (1..MaxPixels) \X (1..MaxPixels) : wh[1] * wh[2] <= MaxPixels}
Configs == {c \in [width : 1..MaxPixels, height : 1..MaxPixels,
                   hasCs : BOOLEAN, useXl : BOOLEAN] :
               <<c.width, c.height>> \in Dims}
Levels == {0, 1}
NoLine == -1                          \* level of a line that is not wired
\* pin numbers handed to the expander: on either port, at bit 0 and bit 7,
\* inputs (0, 15) and outputs (7, 8, 11) of the board, and one past each end
XlPins == {-1, 0, 7, 8, 11, 15, 16}
PinValues == {0, 1, 2}                \* levels handed to write_pin
PortLevels == {0, 90, 165, 255}       \* bytes an input register holds
OutputValues == {65535, 30334}        \* 0xFFFF, 0x767E
PortValues == {255, 126}              \* 0xFF, 0x7E
ConfigValues == {<<3, 240>>, <<0, 0>>}
\* levels of the 16 lines: every combination of the four key lines, with
\* the other lines high, or with lines 0, 1, 8 and 9 low (0xCFC)
KeyInputs == {hi * 4096 + lo : hi \in 0..15, lo \in {4095, 3324}}

VARIABLES
    phase,      \* "new" before ST7789V(...), "ready" after, "failed" if it raised
    cfg,        \* constructor arguments: width, height, hasCs, useXl
    buffer,     \* self.buffer, a sequence of bytes
    rotation,   \* self.rotation
    w, h,       \* self.w, self.h (logical dimensions)
    cs, dc,     \* levels of the chip-select and data/command lines
    oc,         \* XL9555._output_cache, <<port0, port1>>
    cc,         \* XL9555._config_cache, <<port0, port1>>
    dev,        \* the expander's registers 0x02, 0x03, 0x06, 0x07
    ret,        \* <<v>> if the last call returned v, <<>> if it returned None
    call,       \* the last method call and its arguments
    prev,       \* self.buffer before the last call
    log,        \* events of the last call, in order
    err         \* "ok" or the exception the last call raised

vars == <<phase, cfg, buffer, rotation, w, h, cs, dc, oc, cc, dev, ret,
          call, prev, log, err>>

Min(a, b) == IF a < b THEN a ELSE b
Max(a, b) == IF a > b THEN a ELSE b

\* ------------------------------------------------------------ bit helpers
\* v >> n and v & 0xFF on Python integers (>> floors, also for negatives)
Shr(v, n) == v \div (2 ^ n)
And255(v) == v % 256
BitOf(v, bit) == (v \div (2 ^ bit)) % 2
SetBit(v, bit) == IF BitOf(v, bit) = 1 THEN v ELSE v + 2 ^ bit
ClearBit(v, bit) == IF BitOf(v, bit) = 1 THEN v - 2 ^ bit ELSE v

\* ------------------------------------------------------ primitive steps
Raise(st, e) == [st EXCEPT !.err = e]
Emit(st, ev) == [st EXCEPT !.log = Append(@, ev)]

\* self.cs(v): the line object is called; None is not callable
cs_call(st, v) ==
    IF st.err # "ok" THEN st
    ELSE IF ~st.hasCs THEN Raise(st, "TypeError")
    ELSE Emit([st EXCEPT !.cs = v], [k |-> "cs", v |-> v])

\* "if self.cs: self.cs(v)"
cs_guarded(st, v) == IF st.hasCs THEN cs_call(st, v) ELSE st

dc_call(st, v) ==
    IF st.err # "ok" THEN st
    ELSE Emit([st EXCEPT !.dc = v], [k |-> "dc", v |-> v])

\* a failed write attempted a second time
spi_write_retry(st, data, src) ==
    IF st.err # "ok" THEN st
    ELSE LET s1 == IF st.nwrites + 1 = st.failAt
                   THEN Emit(st, [k |-> "spi_err", src |-> src])
                   ELSE st
         IN  Emit([s1 EXCEPT !.nwrites = @ + 1],
                  [k |-> "spi", src |-> src, data |-> data,
                   cs |-> st.cs, dc |-> st.dc])

\* self.spi.write(data): the st.failAt-th write of the call raises OSError
spi_write(st, data, src) ==
    IF st.err # "ok" THEN st
    ELSE IF st.nwrites + 1 = st.failAt
         THEN Raise(Emit([st EXCEPT !.nwrites = @ + 1],
                         [k |-> "spi_err", src |-> src]), "OSError")
    ELSE Emit([st EXCEPT !.nwrites = @ + 1],
              [k |-> "spi", src |-> src, data |-> data,
               cs |-> st.cs, dc |-> st.dc])

\* XL9555._write_reg(reg, value): one transfer on the I2C bus; the
\* st.i2cFailAt-th transfer of the call raises OSError
xl_write_reg(st, reg, value) ==
    IF st.err # "ok" THEN st
    ELSE IF st.ni2c + 1 = st.i2cFailAt
         THEN Raise(Emit([st EXCEPT !.ni2c = @ + 1],
                         [k |-> "i2c_err", reg |-> reg]), "OSError")
    ELSE Emit([st EXCEPT !.ni2c = @ + 1, !.dev[reg] = value],
              [k |-> "i2c", reg |-> reg, v |-> value])

\* XL9555._read_reg(reg): the register is addressed and one byte read
xl_read_reg(st, reg, level) ==
    IF st.err # "ok" THEN st
    ELSE IF st.ni2c + 1 = st.i2cFailAt
         THEN Raise(Emit([st EXCEPT !.ni2c = @ + 1],
                         [k |-> "i2c_err", reg |-> reg]), "OSError")
    ELSE Emit([st EXCEPT !.ni2c = @ + 1, !.ret = <<level>>],
              [k |-> "i2c_read", reg |-> reg, v |-> level])

\* the port byte built from the pin alone instead of from the cached byte
xl_write_pin_alone(st, pin, value) ==
    IF st.err # "ok" THEN st
    ELSE IF ~(0 <= pin /\ pin <= 15) THEN Raise(st, "ValueError")
    ELSE LET port == pin \div 8
             bit  == pin % 8
             nb   == IF value # 0 THEN 2 ^ bit ELSE 0
             s1   == Emit(st, [k |-> "pin", pin |-> pin, v |-> value])
         IN  xl_write_reg([s1 EXCEPT !.oc[port + 1] = nb],
                          REG_OUTPUT_PORT0 + port, nb)

\* XL9555.write_pin(pin, value)
xl_write_pin(st, pin, value) ==
    IF st.err # "ok" THEN st
    ELSE IF ~(0 <= pin /\ pin <= 15) THEN Raise(st, "ValueError")
    ELSE LET port == pin \div 8
             bit  == pin % 8
             nb   == IF value # 0 THEN SetBit(st.oc[port + 1], bit)
                                  ELSE ClearBit(st.oc[port + 1], bit)
             s1   == Emit(st, [k |-> "pin", pin |-> pin, v |-> value])
         IN  xl_write_reg([s1 EXCEPT !.oc[port + 1] = nb],
                          REG_OUTPUT_PORT0 + port, nb)

\* the input register read whatever the direction of the pin
xl_read_pin_device(st, pin, level) ==
    IF st.err # "ok" THEN st
    ELSE IF ~(0 <= pin /\ pin <= 15) THEN Raise(st, "ValueError")
    ELSE LET port == pin \div 8
             bit  == pin % 8
             s1   == xl_read_reg(st, REG_INPUT_PORT0 + port, level)
         IN  IF s1.err # "ok" THEN s1
             ELSE [s1 EXCEPT !.ret = <<Shr(s1.ret[1], bit) % 2>>]

\* XL9555.read_pin(pin); level is the byte the input register holds
xl_read_pin(st, pin, level) ==
    IF st.err # "ok" THEN st
    ELSE IF ~(0 <= pin /\ pin <= 15) THEN Raise(st, "ValueError")
    ELSE LET port == pin \div 8
             bit  == pin % 8
             s1   == IF BitOf(st.cc[port + 1], bit) = 1
                     THEN xl_read_reg(st, REG_INPUT_PORT0 + port, level)
                     ELSE [st EXCEPT !.ret = <<st.oc[port + 1]>>]
         IN  IF s1.err # "ok" THEN s1
             ELSE [s1 EXCEPT !.ret = <<Shr(s1.ret[1], bit) % 2>>]

\* XL9555.toggle_pin(pin): write_pin(pin, not read_pin(pin))
xl_toggle_pin(st, pin, level) ==
    LET s1 == xl_read_pin(st, pin, level)
    IN  IF s1.err # "ok" THEN s1
        ELSE LET current == s1.ret[1]
                 s2 == xl_write_pin(s1, pin, IF current = 0 THEN 1 ELSE 0)
             IN  [s2 EXCEPT !.ret = <<>>]

\* XL9555.get_input(); inputs are the levels of the 16 lines
xl_get_input(st, inputs) ==
    LET s1 == xl_read_reg(st, REG_INPUT_PORT0, And255(inputs))
        s2 == xl_read_reg(s1, REG_INPUT_PORT0 + 1, And255(Shr(inputs, 8)))
    IN  IF s2.err # "ok" THEN s2
        ELSE [s2 EXCEPT !.ret = <<s2.ret[1] * 256 + s1.ret[1]>>]

\* XL9555.key_scan(): "not (inputs & (1 << P))" is: bit P of inputs is 0
xl_key_scan(st, inputs) ==
    LET s1 == xl_get_input(st, inputs)
    IN  IF s1.err # "ok" THEN s1
        ELSE LET in == s1.ret[1]
             IN  [s1 EXCEPT !.ret =
                     << IF BitOf(in, P11) = 0 THEN 0
                        ELSE IF BitOf(in, P10) = 0 THEN 1
                        ELSE IF BitOf(in, P01) = 0 THEN 2
                        ELSE IF BitOf(in, P00) = 0 THEN 3
                        ELSE -1 >>]

\* XL9555.config(config0, config1)
xl_config(st, config0, config1) ==
    IF st.err # "ok" THEN st
    ELSE LET s1 == [st EXCEPT !.cc = <<config0, config1>>]
             s2 == xl_write_reg(s1, REG_CONFIG_PORT0, config0)
         IN  xl_write_reg(s2, REG_CONFIG_PORT0 + 1, config1)

\* XL9555.set_output(value)
xl_set_output(st, value) ==
    IF st.err # "ok" THEN st
    ELSE LET port0 == And255(value)
             port1 == And255(Shr(value, 8))
             s1 == [st EXCEPT !.oc = <<port0, port1>>]
             s2 == xl_write_reg(s1, REG_OUTPUT_PORT0, port0)
         IN  xl_write_reg(s2, REG_OUTPUT_PORT0 + 1, port1)

\* the register written without the cache being updated
xl_set_output_port_uncached(st, port, value) ==
    IF st.err # "ok" THEN st
    ELSE IF port \notin {0, 1} THEN Raise(st, "ValueError")
    ELSE xl_write_reg(st, REG_OUTPUT_PORT0 + port, value)

\* XL9555.set_output_port(port, value)
xl_set_output_port(st, port, value) ==
    IF st.err # "ok" THEN st
    ELSE IF port \notin {0, 1} THEN Raise(st, "ValueError")
    ELSE xl_write_reg([st EXCEPT !.oc[port + 1] = value],
                      REG_OUTPUT_PORT0 + port, value)

\* XL9555.__init__
xl_construct(st) ==
    LET s0 == [st EXCEPT !.oc = <<0, 0>>, !.cc = <<255, 255>>]
    IN  xl_set_output(xl_config(s0, 3, 240), 65535)

\* ------------------------------------------------------ ST7789V methods
write_cmd(st, cmd) ==
    LET s1 == cs_guarded(st, 0)
        s2 == dc_call(s1, 0)
        s3 == spi_write(s2, <<cmd>>, "cmd")
    IN  cs_guarded(s3, 1)

write_data(st, data) ==
    LET s1 == cs_guarded(st, 0)
        s2 == dc_call(s1, 1)
        s3 == spi_write(s2, data, "data")
    IN  cs_guarded(s3, 1)

\* command and payload sent under one assertion of chip-select
write_reg_one_bracket(st, reg, data) ==
    IF data = <<>> THEN write_cmd(st, reg)
    ELSE LET s1 == cs_guarded(st, 0)
             s2 == dc_call(s1, 0)
             s3 == spi_write(s2, <<reg>>, "cmd")
             s4 == dc_call(s3, 1)
             s5 == spi_write(s4, data, "data")
         IN  cs_guarded(s5, 1)

write_reg(st, reg, data) ==
    LET s1 == write_cmd(st, reg)
    IN  IF data # <<>> THEN write_data(s1, data) ELSE s1

\* the reset skipped without a collaborator, as init_display does
reset_silent(st) ==
    IF st.err # "ok" THEN st
    ELSE IF st.useXl
         THEN xl_write_pin(xl_write_pin(st, pin_rst, 0), pin_rst, 1)
         ELSE st

reset(st) ==
    IF st.err # "ok" THEN st
    ELSE IF st.useXl
         THEN xl_write_pin(xl_write_pin(st, pin_rst, 0), pin_rst, 1)
         ELSE Raise(st, "RuntimeError")

\* the reset pin written instead of the backlight pin, and an error raised
\* without a collaborator
set_backlight_as_reset(st, on) ==
    IF st.err # "ok" THEN st
    ELSE IF st.useXl THEN xl_write_pin(st, pin_rst, on)
         ELSE Raise(st, "RuntimeError")

\* the warning printed without a collaborator is an event of the call
set_backlight(st, on) ==
    IF st.err # "ok" THEN st
    ELSE IF st.useXl THEN xl_write_pin(st, pin_bl, on)
         ELSE Emit(st, [k |-> "warn"])

\* the codes of rotations 1 and 3 exchanged
madctl_exchanged(rot) ==
    CASE rot = 0 -> 0
      [] rot = 1 -> 160
      [] rot = 2 -> 192
      [] rot = 3 -> 96

madctl_of(rot) ==
    CASE rot = 0 -> 0        \* 0x00
      [] rot = 1 -> 96       \* 0x60
      [] rot = 2 -> 192      \* 0xC0
      [] rot = 3 -> 160      \* 0xA0

\* the physical dimensions exchanged and the buffer reallocated for the
\* landscape rotations
set_rotation_realloc(st, r) ==
    IF st.err # "ok" THEN st
    ELSE LET rot == r % 4
             odd == (rot \in {1, 3}) # (st.rotation \in {1, 3})
             s1  == [st EXCEPT !.rotation = rot,
                        !.width  = IF odd THEN st.height ELSE st.width,
                        !.height = IF odd THEN st.width ELSE st.height,
                        !.w = IF odd THEN st.height ELSE st.width,
                        !.h = IF odd THEN st.width ELSE st.height,
                        !.buffer = [i \in 1..Len(st.buffer) |-> 0]]
         IN  write_reg(s1, ST7789_MADCTL, <<madctl_of(rot)>>)

set_rotation(st, r) ==
    IF st.err # "ok" THEN st
    ELSE LET rot == r % 4
             s1  == [st EXCEPT !.rotation = rot,
                        !.w = IF rot \in {0, 2} THEN st.width ELSE st.height,
                        !.h = IF rot \in {0, 2} THEN st.height ELSE st.width]
         IN  write_reg(s1, ST7789_MADCTL, <<madctl_of(rot)>>)

\* the end coordinates taken as origin + extent
set_window_end_off_by_one(st, x, y, ww, hh) ==
    LET x_start == x
        x_end   == x + ww
        y_start == y
        y_end   == y + hh
        s1 == write_reg(st, ST7789_CASET,
                        <<And255(Shr(x_start, 8)), And255(x_start),
                          And255(Shr(x_end, 8)), And255(x_end)>>)
        s2 == write_reg(s1, ST7789_RASET,
                        <<And255(Shr(y_start, 8)), And255(y_start),
                          And255(Shr(y_end, 8)), And255(y_end)>>)
    IN  write_cmd(s2, ST7789_RAMWR)

set_window(st, x, y, ww, hh) ==
    LET x_start == x
        x_end   == x + ww - 1
        y_start == y
        y_end   == y + hh - 1
        s1 == write_reg(st, ST7789_CASET,
                        <<And255(Shr(x_start, 8)), And255(x_start),
                          And255(Shr(x_end, 8)), And255(x_end)>>)
        s2 == write_reg(s1, ST7789_RASET,
                        <<And255(Shr(y_start, 8)), And255(y_start),
                          And255(Shr(y_end, 8)), And255(y_end)>>)
    IN  write_cmd(s2, ST7789_RAMWR)

\* the chunk filled from the start of the buffer instead of from offset i
swap_chunk_no_offset(buf, i, end) ==
    [kk \in 1..(end - i) |->
        IF (kk - 1) % 2 = 0 THEN buf[(kk - 1) + 1 + 1]
                            ELSE buf[(kk - 1) - 1 + 1]]

\* the inner loop of show(): chunk[j] = buf[i+j+1]; chunk[j+1] = buf[i+j]
\* (buf is 0-based in the source, 1-based here)
swap_chunk(buf, i, end) ==
    [kk \in 1..(end - i) |->
        IF (kk - 1) % 2 = 0 THEN buf[i + (kk - 1) + 1 + 1]
                            ELSE buf[i + (kk - 1) - 1 + 1]]

RECURSIVE show_loop(_, _, _)
show_loop(st, i, CHUNK) ==
    IF i >= Len(st.buffer) \/ st.err # "ok" THEN st
    ELSE LET end == Min(i + CHUNK, Len(st.buffer))
         IN  IF (end - i) % 2 = 1 THEN Raise(st, "IndexError")
             ELSE show_loop(spi_write(st, swap_chunk(st.buffer, i, end), "pixels"),
                            i + CHUNK, CHUNK)

\* the window taken from the logical (rotated) dimensions
show_logical_window(st, CHUNK) ==
    LET s1 == set_window(st, 0, 0, st.w, st.h)
        s2 == cs_call(s1, 0)
        s3 == dc_call(s2, 1)
        s4 == show_loop(s3, 0, CHUNK)
    IN  cs_call(s4, 1)

\* the data/command line left as set_window left it
show_no_dc(st, CHUNK) ==
    LET s1 == set_window(st, 0, 0, st.width, st.height)
        s2 == cs_call(s1, 0)
        s4 == show_loop(s2, 0, CHUNK)
    IN  cs_call(s4, 1)

\* the bytes exchanged in the buffer itself, with no scratch copy
show_in_place(st, CHUNK) ==
    LET s1 == set_window(st, 0, 0, st.width, st.height)
        s2 == cs_call(s1, 0)
        s3 == dc_call(s2, 1)
        s4 == show_loop(s3, 0, CHUNK)
        s5 == IF s4.err # "ok" THEN s4
              ELSE [s4 EXCEPT !.buffer =
                       [i \in 1..Len(@) |->
                           IF i % 2 = 1 THEN @[i + 1] ELSE @[i - 1]]]
    IN  cs_call(s5, 1)

show(st, CHUNK) ==
    LET s1 == set_window(st, 0, 0, st.width, st.height)
        s2 == cs_call(s1, 0)
        s3 == dc_call(s2, 1)
        s4 == show_loop(s3, 0, CHUNK)
    IN  cs_call(s4, 1)

\* framebuf.FrameBuffer.fill(color) on an RGB565 buffer (little-endian)
fb_fill(st, color) ==
    IF st.err # "ok" THEN st
    ELSE Emit([st EXCEPT !.buffer =
                  [i \in 1..Len(st.buffer) |->
                      IF i % 2 = 1 THEN (color % 65536) % 256
                                   ELSE (color % 65536) \div 256]],
              [k |-> "fill", color |-> color])

\* framebuf.FrameBuffer.pixel(x, y, color): setpixel inside the bounds
fb_pixel(st, x, y, color) ==
    IF st.err # "ok" THEN st
    ELSE IF 0 <= x /\ x < st.width /\ 0 <= y /\ y < st.height
         THEN LET idx == (x + y * st.width) * 2
                  col == color % 65536
              IN  [st EXCEPT !.buffer[idx + 1] = col % 256,
                             !.buffer[idx + 2] = col \div 256]
         ELSE st

\* framebuf.FrameBuffer.fill_rect(x, y, w, h, color)
fb_fill_rect(st, x, y, ww, hh, color) ==
    IF st.err # "ok" THEN st
    ELSE IF hh < 1 \/ ww < 1 \/ x + ww <= 0 \/ y + hh <= 0
            \/ y >= st.height \/ x >= st.width
         THEN st
    ELSE LET xend == Min(st.width, x + ww)
             yend == Min(st.height, y + hh)
             x0   == Max(x, 0)
             y0   == Max(y, 0)
             col  == color % 65536
         IN  [st EXCEPT !.buffer =
                 [i \in 1..Len(st.buffer) |->
                     LET p  == (i - 1) \div 2
                         px == p % st.width
                         py == p \div st.width
                     IN  IF x0 <= px /\ px < xend /\ y0 <= py /\ py < yend
                         THEN IF i % 2 = 1 THEN col % 256 ELSE col \div 256
                         ELSE st.buffer[i]]]

\* the left bound of the clipping test off by one
pixel_strict(st, x, y, color) ==
    IF 0 < x /\ x < st.width /\ 0 <= y /\ y < st.height
    THEN fb_pixel(st, x, y, color)
    ELSE st

pixel(st, x, y, color) ==
    IF 0 <= x /\ x < st.width /\ 0 <= y /\ y < st.height
    THEN fb_pixel(st, x, y, color)
    ELSE st

\* the far edge computed after the origin was clamped
fill_rect_late_edge(st, x, y, ww, hh, color) ==
    IF ww <= 0 \/ hh <= 0 THEN st
    ELSE LET x1    == IF x < 0 THEN 0 ELSE x
             y1    == IF y < 0 THEN 0 ELSE y
             end_x == IF x1 + ww > st.width THEN st.width ELSE x1 + ww
             end_y == IF y1 + hh > st.height THEN st.height ELSE y1 + hh
         IN  fb_fill_rect(st, x1, y1, end_x - x1, end_y - y1, color)

fill_rect(st, x, y, ww, hh, color) ==
    IF ww <= 0 \/ hh <= 0 THEN st
    ELSE LET end_x == IF x + ww > st.width THEN st.width ELSE x + ww
             end_y == IF y + hh > st.height THEN st.height ELSE y + hh
             x1    == IF x < 0 THEN 0 ELSE x
             y1    == IF y < 0 THEN 0 ELSE y
         IN  fb_fill_rect(st, x1, y1, end_x - x1, end_y - y1, color)

init_display(st, rot, CHUNK) ==
    LET s0 == IF st.useXl
              THEN xl_write_pin(xl_write_pin(st, pin_rst, 0), pin_rst, 1)
              ELSE st
        s1 == write_cmd(s0, ST7789_SLPOUT)
        s2 == write_reg(s1, ST7789_COLMOD, <<5>>)
        s3 == write_cmd(s2, ST7789_INVON)
        s4 == set_rotation(s3, rot)
        s5 == write_cmd(s4, ST7789_DISPON)
        s6 == set_backlight(s5, 1)
        s7 == fb_fill(s6, COLOR_BLACK)
    IN  show(s7, CHUNK)

\* ST7789V.__init__
construct(st, rot, CHUNK) ==
    LET s1 == IF st.hasCs
              THEN Emit([st EXCEPT !.cs = 1], [k |-> "cs_init", v |-> 1])
              ELSE st
        s2 == Emit([s1 EXCEPT !.dc = 0], [k |-> "dc_init", v |-> 0])
        s3 == [s2 EXCEPT !.buffer = [i \in 1..(st.width * st.height * 2) |-> 0]]
    IN  init_display(s3, rot, CHUNK)

\* ------------------------------------------------------------ actions
\* the driver record of the current state, at the start of a call
Cur(failAt) ==
    [width |-> cfg.width, height |-> cfg.height,
     hasCs |-> cfg.hasCs, useXl |-> cfg.useXl,
     buffer |-> buffer, rotation |-> rotation, w |-> w, h |-> h,
     cs |-> cs, dc |-> dc, oc |-> oc, cc |-> cc, dev |-> dev, ret |-> <<>>,
     log |-> <<>>, err |-> "ok", nwrites |-> 0, failAt |-> failAt,
     ni2c |-> 0, i2cFailAt |-> 0]

Commit(st, c) ==
    /\ buffer' = st.buffer
    /\ rotation' = st.rotation
    /\ w' = st.w
    /\ h' = st.h
    /\ cs' = st.cs
    /\ dc' = st.dc
    /\ oc' = st.oc
    /\ cc' = st.cc
    /\ dev' = st.dev
    /\ ret' = st.ret
    /\ log' = st.log
    /\ err' = st.err
    /\ prev' = buffer
    /\ call' = c
    /\ cfg' = [cfg EXCEPT !.width = st.width, !.height = st.height]

\* XL9555.__init__: config(0x03, 0xF0); set_output(0xFFFF)
Init ==
    /\ phase = "new"
    /\ cfg \in Configs
    /\ buffer = <<>>
    /\ rotation = 0
    /\ w = 0
    /\ h = 0
    /\ cs = IF cfg.hasCs THEN 0 ELSE NoLine
    /\ dc = 0
    /\ oc = <<255, 255>>
    /\ cc = <<3, 240>>
    /\ dev = (2 :> 255) @@ (3 :> 255) @@ (6 :> 3) @@ (7 :> 240)
    /\ ret = <<>>
    /\ call = [op |-> "none"]
    /\ prev = <<>>
    /\ log = <<>>
    /\ err = "ok"

\* one call of each method with given arguments; failAt is the bus write
\* of the call that fails (0: none); "again" marks a show() that directly
\* follows a show() that returned
DoConstruct(rot, CHUNK, failAt) ==
    /\ phase = "new"
    /\ LET st == construct(Cur(failAt), rot, CHUNK)
       IN  /\ Commit(st, [op |-> "init", rot |-> rot, CHUNK |-> CHUNK,
                          failAt |-> failAt])
           /\ phase' = IF st.err = "ok" THEN "ready" ELSE "failed"

DoSetRotation(r, failAt) ==
    /\ phase = "ready"
    /\ Commit(set_rotation(Cur(failAt), r),
              [op |-> "set_rotation", r |-> r, failAt |-> failAt])
    /\ UNCHANGED phase

DoShow(CHUNK, failAt) ==
    /\ phase = "ready"
    /\ Commit(show(Cur(failAt), CHUNK),
              [op |-> "show", CHUNK |-> CHUNK, failAt |-> failAt,
               again |-> (call.op = "show" /\ err = "ok")])
    /\ UNCHANGED phase

DoSetWindow(x, y, ww, hh, failAt) ==
    /\ phase = "ready"
    /\ Commit(set_window(Cur(failAt), x, y, ww, hh),
              [op |-> "set_window", x |-> x, y |-> y, w |-> ww, h |-> hh,
               failAt |-> failAt])
    /\ UNCHANGED phase

Construct ==
    \E rot \in (-MaxNeg)..MaxRot, CHUNK \in ChunkSizes, failAt \in 0..MaxFailAt :
        DoConstruct(rot, CHUNK, failAt)

SetRotation ==
    \E r \in (-MaxNeg)..MaxRot, failAt \in 0..MaxFailAt : DoSetRotation(r, failAt)

Show ==
    \E CHUNK \in ChunkSizes, failAt \in 0..MaxFailAt : DoShow(CHUNK, failAt)

SetWindow ==
    \E xs \in WindowXSpans, ys \in WindowYSpans, failAt \in 0..MaxFailAt :
        DoSetWindow(xs[1], ys[1], xs[2], ys[2], failAt)

\* the same calls with the bus failing at any of its writes
ConstructAnyFail ==
    \E rot \in (-MaxNeg)..MaxRot, CHUNK \in ChunkSizes, failAt \in 0..MaxFailAny :
        DoConstruct(rot, CHUNK, failAt)

ShowAnyFail ==
    \E CHUNK \in ChunkSizes, failAt \in 0..MaxFailAny : DoShow(CHUNK, failAt)

SetWindowAnyFail ==
    \E failAt \in 0..MaxFailAny : DoSetWindow(10, 20, 30, 40, failAt)

Reset ==
    /\ phase = "ready"
    /\ Commit(reset(Cur(0)), [op |-> "reset"])
    /\ UNCHANGED phase

SetBacklight ==
    /\ phase = "ready"
    /\ \E on \in Levels :
          /\ Commit(set_backlight(Cur(0), on), [op |-> "set_backlight", on |-> on])
          /\ UNCHANGED phase

Pixel ==
    /\ phase = "ready"
    /\ \E x \in (-MaxNeg)..cfg.width, y \in (-MaxNeg)..cfg.height,
          color \in Colors :
          /\ Commit(pixel(Cur(0), x, y, color),
                    [op |-> "pixel", x |-> x, y |-> y, color |-> color])
          /\ UNCHANGED phase

Fill ==
    /\ phase = "ready"
    /\ \E color \in Colors :
          /\ Commit(fb_fill(Cur(0), color), [op |-> "fill", color |-> color])
          /\ UNCHANGED phase

DoFillRect(x, y, ww, hh, color) ==
    /\ phase = "ready"
    /\ Commit(fill_rect(Cur(0), x, y, ww, hh, color),
              [op |-> "fill_rect", x |-> x, y |-> y, w |-> ww, h |-> hh,
               color |-> color])
    /\ UNCHANGED phase

FillRect ==
    \E xs \in RectSpans(cfg.width), ys \in RectSpans(cfg.height),
       color \in Colors :
        DoFillRect(xs[1], ys[1], xs[2], ys[2], color)

\* calls on a bus that does not fail, and rectangles clipped at an edge
SetRotationOk == \E r \in (-MaxNeg)..MaxRot : DoSetRotation(r, 0)

ShowOk == \E CHUNK \in ChunkSizes : DoShow(CHUNK, 0)

FillRectClipped ==
    \E xs \in {<<-MaxNeg, MaxNeg + 1>>, <<1, cfg.width>>},
       ys \in {<<-MaxNeg, MaxNeg + 1>>, <<1, cfg.height>>},
       color \in Colors :
        DoFillRect(xs[1], ys[1], xs[2], ys[2], color)

Next ==
    \/ Construct
    \/ SetRotation
    \/ SetWindow
    \/ Show
    \/ Reset
    \/ SetBacklight
    \/ Fill

Spec == Init /\ [][Next]_vars

\* A driver right after a construction that returned normally (rotation 0,
\* no bus failure), as the starting point of the drawing calls.  Only
\* constructions with a chip-select line return normally.
InitStore ==
    /\ phase = "ready"
    /\ cfg \in Configs
    /\ LET st == construct([width |-> cfg.width, height |-> cfg.height,
                            hasCs |-> cfg.hasCs, useXl |-> cfg.useXl,
                            buffer |-> <<>>, rotation |-> 0, w |-> 0, h |-> 0,
                            cs |-> 0, dc |-> 0, oc |-> <<255, 255>>,
                            cc |-> <<3, 240>>,
                            dev |-> (2 :> 255) @@ (3 :> 255) @@ (6 :> 3)
                                       @@ (7 :> 240),
                            ret |-> <<>>,
                            log |-> <<>>, err |-> "ok", nwrites |-> 0,
                            failAt |-> 0, ni2c |-> 0, i2cFailAt |-> 0], 0, 2)
       IN  /\ st.err = "ok"
           /\ buffer = st.buffer
           /\ rotation = st.rotation
           /\ w = st.w
           /\ h = st.h
           /\ cs = st.cs
           /\ dc = st.dc
           /\ oc = st.oc
           /\ cc = st.cc
           /\ dev = st.dev
           /\ ret = <<>>
           /\ log = st.log
           /\ err = "ok"
           /\ prev = <<>>
           /\ call = [op |-> "init", rot |-> 0, CHUNK |-> 2, failAt |-> 0]

\* the drawing calls on the pixel store
NextStore ==
    \/ Pixel
    \/ Fill
    \/ FillRect

SpecStore == InitStore /\ [][NextStore]_vars

\* drawing calls interleaved with refreshes
NextShow ==
    \/ Pixel
    \/ Fill
    \/ Show

SpecShow == InitStore /\ [][NextShow]_vars

\* drawing, rotation and refresh interleaved
NextDraw ==
    \/ SetRotationOk
    \/ Pixel
    \/ Fill
    \/ FillRectClipped
    \/ ShowOk

SpecDraw == InitStore /\ [][NextDraw]_vars

\* the calls that write to the bus, with the bus failing anywhere
NextFail ==
    \/ ConstructAnyFail
    \/ SetRotation
    \/ SetWindowAnyFail
    \/ ShowAnyFail

SpecFail == Init /\ [][NextFail]_vars

\* ------------------------------------------------ the expander alone
\* the expander right after XL9555(i2c); the display is not constructed
InitXL ==
    /\ phase = "new"
    /\ cfg = [width |-> 1, height |-> 1, hasCs |-> TRUE, useXl |-> TRUE]
    /\ buffer = <<>>
    /\ rotation = 0
    /\ w = 0
    /\ h = 0
    /\ cs = 0
    /\ dc = 0
    /\ LET st == xl_construct(
                    [oc |-> <<0, 0>>, cc |-> <<255, 255>>,
                     dev |-> (2 :> 255) @@ (3 :> 255) @@ (6 :> 255)
                                @@ (7 :> 255),
                     ret |-> <<>>, log |-> <<>>, err |-> "ok",
                     ni2c |-> 0, i2cFailAt |-> 0])
       IN  /\ oc = st.oc
           /\ cc = st.cc
           /\ dev = st.dev
           /\ log = st.log
           /\ err = st.err
    /\ ret = <<>>
    /\ prev = <<>>
    /\ call = [op |-> "xl_init"]

\* one call of each expander method; "wrote" of a read_pin is the level
\* handed to a write_pin of the same pin that returned directly before it
XlWritePin ==
    \E pin \in XlPins, value \in PinValues :
        /\ Commit(xl_write_pin(Cur(0), pin, value),
                  [op |-> "write_pin", pin |-> pin, value |-> value])
        /\ UNCHANGED phase

XlReadPin ==
    \E pin \in XlPins, level \in PortLevels :
        /\ Commit(xl_read_pin(Cur(0), pin, level),
                  [op |-> "read_pin", pin |-> pin, level |-> level,
                   wrote |-> IF call.op = "write_pin" /\ err = "ok"
                                /\ call.pin = pin
                             THEN <<call.value>> ELSE <<>>])
        /\ UNCHANGED phase

XlTogglePin ==
    \E pin \in XlPins, level \in PortLevels :
        /\ Commit(xl_toggle_pin(Cur(0), pin, level),
                  [op |-> "toggle_pin", pin |-> pin, level |-> level])
        /\ UNCHANGED phase

XlSetOutput ==
    \E value \in OutputValues, failAt \in 0..2 :
        /\ Commit(xl_set_output([Cur(0) EXCEPT !.i2cFailAt = failAt], value),
                  [op |-> "set_output", value |-> value, failAt |-> failAt])
        /\ UNCHANGED phase

XlSetOutputPort ==
    \E port \in 0..2, value \in PortValues :
        /\ Commit(xl_set_output_port(Cur(0), port, value),
                  [op |-> "set_output_port", port |-> port, value |-> value])
        /\ UNCHANGED phase

XlConfig ==
    \E c \in ConfigValues :
        /\ Commit(xl_config(Cur(0), c[1], c[2]),
                  [op |-> "config", config0 |-> c[1], config1 |-> c[2]])
        /\ UNCHANGED phase

XlKeyScan ==
    \E inputs \in KeyInputs :
        /\ Commit(xl_key_scan(Cur(0), inputs),
                  [op |-> "key_scan", inputs |-> inputs])
        /\ UNCHANGED phase

NextXL ==
    \/ XlWritePin
    \/ XlReadPin
    \/ XlTogglePin
    \/ XlSetOutput
    \/ XlSetOutputPort
    \/ XlConfig
    \/ XlKeyScan

SpecXL == InitXL /\ [][NextXL]_vars

\* -------------------------------------------------------------------
\* Properties
\* -------------------------------------------------------------------

\* the bus writes of a call, in order
BusWrites(l) == SelectSeq(l, LAMBDA e : e.k = "spi")

RECURSIVE DataOf(_)
DataOf(evs) == IF evs = <<>> THEN <<>> ELSE Head(evs).data \o DataOf(Tail(evs))

IsCmd(e, c) == e.k = "spi" /\ e.dc = 0 /\ e.data = <<c>>
IsData(e) == e.k = "spi" /\ e.dc = 1

\* the bytes written to the bus after the last memory-write command
StreamAfterRamwr(l) ==
    LET bw == BusWrites(l)
        at == {i \in 1..Len(bw) : IsCmd(bw[i], ST7789_RAMWR)}
    IN  IF at = {} THEN <<>>
        ELSE LET last == CHOOSE i \in at : \A j \in at : j <= i
             IN  DataOf(SubSeq(bw, last + 1, Len(bw)))

SwapPairs(seq) ==
    [i \in 1..Len(seq) |-> IF i % 2 = 1 THEN seq[i + 1] ELSE seq[i - 1]]

\* the 16-bit pixel p (0-based) of a byte buffer, read little-endian
PixelAt(buf, p) == buf[2 * p + 1] + 256 * buf[2 * p + 2]

\* C1: the bytes a show() that returned wrote after the memory-write command
\* are as many as the pixel store holds and are the store with the two bytes
\* of every pixel exchanged, pixel order kept, for every chunk size; swapping
\* them back in pairs gives the store.
C1_ShowStreamsSwappedStore ==
    (call.op = "show" /\ err = "ok") =>
        LET out == StreamAfterRamwr(log)
        IN  /\ Len(out) = Len(prev)
            /\ \A p \in 0..(Len(prev) \div 2 - 1) :
                   /\ out[2 * p + 1] = prev[2 * p + 2]
                   /\ out[2 * p + 2] = prev[2 * p + 1]
            /\ SwapPairs(out) = prev

\* a refresh in several chunks, the last one short, of a store whose pixels
\* differ and whose bytes within a pixel differ
C1_Witness ==
    /\ call.op = "show"
    /\ err = "ok"
    /\ Len(prev) > call.CHUNK
    /\ Len(prev) % call.CHUNK # 0
    /\ prev[1] # prev[2]
    /\ PixelAt(prev, 0) # PixelAt(prev, 1)
    /\ Len(StreamAfterRamwr(log)) = Len(prev)

\* C2: pixel(x, y, color) writes exactly when (x, y) is inside the buffer:
\* inside, the two bytes at (y*width + x)*2 hold color low byte first and
\* no other byte changes; outside, no byte changes; no error either way.
C2_PixelWritesIffInBounds ==
    call.op = "pixel" =>
        /\ err = "ok"
        /\ Len(buffer) = Len(prev)
        /\ IF 0 <= call.x /\ call.x < cfg.width /\ 0 <= call.y /\ call.y < cfg.height
           THEN LET idx == (call.y * cfg.width + call.x) * 2
                IN  /\ buffer[idx + 1] = call.color % 256
                    /\ buffer[idx + 2] = call.color \div 256
                    /\ \A i \in 1..Len(buffer) :
                           i \notin {idx + 1, idx + 2} => buffer[i] = prev[i]
           ELSE buffer = prev

\* a pixel in the second row of a buffer two wide changed value
C2_Witness ==
    /\ call.op = "pixel"
    /\ cfg.width = 2
    /\ call.x = 0
    /\ call.y = 1
    /\ call.color = 4660
    /\ buffer # prev
    /\ PixelAt(buffer, 2) = 4660

\* C3: fill_rect(x, y, w, h, color) sets exactly the pixels (i, j) with
\* max(x,0) <= i < min(x+w, width) and max(y,0) <= j < min(y+h, height) to
\* color and leaves the others; nothing changes for w <= 0, h <= 0 or a
\* rectangle outside the buffer; no error.
C3_FillRectFillsIntersection ==
    call.op = "fill_rect" =>
        /\ err = "ok"
        /\ Len(buffer) = Len(prev)
        /\ \A i \in 0..(cfg.width - 1), j \in 0..(cfg.height - 1) :
               LET p == j * cfg.width + i
               IN  IF /\ Max(call.x, 0) <= i
                      /\ i < Min(call.x + call.w, cfg.width)
                      /\ Max(call.y, 0) <= j
                      /\ j < Min(call.y + call.h, cfg.height)
                   THEN PixelAt(buffer, p) = call.color
                   ELSE PixelAt(buffer, p) = PixelAt(prev, p)
        /\ (call.w <= 0 \/ call.h <= 0) => buffer = prev

\* a rectangle with a negative origin coloured pixel (0,0) and left pixel
\* (1,1) of a 2x2 buffer as it was
C3_Witness ==
    /\ call.op = "fill_rect"
    /\ cfg.width = 2
    /\ cfg.height = 2
    /\ call.x = -1
    /\ call.y = -1
    /\ call.w = 2
    /\ call.h = 2
    /\ call.color = 4660
    /\ PixelAt(prev, 0) = 0
    /\ PixelAt(buffer, 0) = 4660
    /\ PixelAt(buffer, 3) = 0

\* C4: a set_rotation(r) that returned left rotation = r mod 4, wrote
\* command 0x36 and then one payload byte 0x00 / 0x60 / 0xC0 / 0xA0 for
\* rotation 0 / 1 / 2 / 3 and nothing else, and set the logical dimensions
\* to (width, height) for rotations 0, 2 and (height, width) for 1, 3.
C4_RotationMapping ==
    (call.op = "set_rotation" /\ err = "ok") =>
        /\ rotation \in 0..3
        /\ \E q \in -2..2 : call.r = 4 * q + rotation
        /\ LET bw == BusWrites(log)
           IN  /\ Len(bw) = 2
               /\ IsCmd(bw[1], 54)
               /\ IsData(bw[2])
               /\ \/ rotation = 0 /\ bw[2].data = <<0>>
                  \/ rotation = 1 /\ bw[2].data = <<96>>
                  \/ rotation = 2 /\ bw[2].data = <<192>>
                  \/ rotation = 3 /\ bw[2].data = <<160>>
        /\ rotation \in {0, 2} => (w = cfg.width /\ h = cfg.height)
        /\ rotation \in {1, 3} => (w = cfg.height /\ h = cfg.width)

\* set_rotation(-1) on a 1x2 panel: rotation 3, code 0xA0, dimensions (2,1)
C4_Witness ==
    /\ call.op = "set_rotation"
    /\ err = "ok"
    /\ call.r = -1
    /\ rotation = 3
    /\ cfg.width = 1
    /\ cfg.height = 2
    /\ w = 2
    /\ h = 1
    /\ BusWrites(log)[2].data = <<160>>

\* the pin writes, bus writes and buffer fills of a call, in order
Step(t, a, b, data) == [t |-> t, a |-> a, b |-> b, data |-> data]

StepOf(e) ==
    CASE e.k = "pin"  -> Step("pin", e.pin, e.v, <<>>)
      [] e.k = "fill" -> Step("fill", e.color, 0, <<>>)
      [] e.k = "spi" /\ e.dc = 0 -> Step("cmd", 0, 0, e.data)
      [] e.k = "spi" /\ e.dc = 1 -> Step("data", 0, 0, e.data)

StepsOf(l) ==
    LET sel == SelectSeq(l, LAMBDA e : e.k \in {"pin", "fill", "spi"})
    IN  [i \in 1..Len(sel) |-> StepOf(sel[i])]

RotationCode(r) ==
    IF r = 0 THEN 0 ELSE IF r = 1 THEN 96 ELSE IF r = 2 THEN 192 ELSE 160

\* the 16 steps of the initialization before the pixel data
InitPrefix(rot) ==
    << Step("pin", 10, 0, <<>>), Step("pin", 10, 1, <<>>),
       Step("cmd", 0, 0, <<17>>),
       Step("cmd", 0, 0, <<58>>), Step("data", 0, 0, <<5>>),
       Step("cmd", 0, 0, <<33>>),
       Step("cmd", 0, 0, <<54>>), Step("data", 0, 0, <<RotationCode(rot % 4)>>),
       Step("cmd", 0, 0, <<41>>),
       Step("pin", 11, 1, <<>>),
       Step("fill", 0, 0, <<>>),
       Step("cmd", 0, 0, <<42>>),
       Step("data", 0, 0, <<0, 0, (cfg.width - 1) \div 256, (cfg.width - 1) % 256>>),
       Step("cmd", 0, 0, <<43>>),
       Step("data", 0, 0, <<0, 0, (cfg.height - 1) \div 256, (cfg.height - 1) % 256>>),
       Step("cmd", 0, 0, <<44>>) >>

InitTraceComplete ==
    LET steps == StepsOf(log)
        n     == Len(InitPrefix(call.rot))
    IN  /\ Len(steps) > n
        /\ SubSeq(steps, 1, n) = InitPrefix(call.rot)
        /\ \A i \in (n + 1)..Len(steps) : steps[i].t = "data"
        /\ LET px == StreamAfterRamwr(log)
           IN  /\ Len(px) = cfg.width * cfg.height * 2
               /\ \A i \in 1..Len(px) : px[i] = 0
        /\ \A i \in 1..Len(buffer) : buffer[i] = 0

\* C5: with an expander configured (and a bus that does not fail), the
\* initialization performs, in this order and with nothing in between: reset
\* pin 10 low, high; 0x11; 0x3A 0x05; 0x21; 0x36 with the rotation code;
\* 0x29; backlight pin 11 high; store filled black; one full refresh.
C5_InitSequence ==
    (call.op = "init" /\ cfg.useXl /\ call.failAt = 0) => InitTraceComplete

\* what the code does do under C5: the sequence is complete whenever the
\* constructor returned, which needs a chip-select line
C5_InitSequenceWhenReturned ==
    (call.op = "init" /\ cfg.useXl /\ err = "ok") => InitTraceComplete

\* C6: without an expander the initialization fails with a configuration
\* error at the reset step and sends no command to the bus.
C6_InitFailsWithoutExpander ==
    (call.op = "init" /\ ~cfg.useXl) =>
        (err = "RuntimeError" /\ BusWrites(log) = <<>>)

\* C7: without a chip-select line (and a bus that does not fail) every call
\* that writes to the bus, initialization included, returns normally and
\* touches no chip-select line.
C7_RunsWithoutChipSelect ==
    (~cfg.hasCs /\ call.op \in {"init", "set_rotation", "set_window", "show"}
        /\ call.failAt = 0) =>
        (err = "ok" /\ \A i \in 1..Len(log) : log[i].k # "cs")

IsBusEvent(e) == e.k \in {"spi", "spi_err"}

\* the bus write log[i] lies in a bracket opened by "chip-select low, set
\* data/command" and, when the write is followed by anything but further
\* writes, closed by "chip-select high"; the writes of one bracket are all
\* commands or all data, and a command bracket holds a single byte
Bracketed(l, i) ==
    LET before == {j \in 1..(i - 1) : ~IsBusEvent(l[j])}
        after  == {j \in (i + 1)..Len(l) : ~IsBusEvent(l[j])}
    IN  /\ before # {}
        /\ LET j == CHOOSE j \in before : \A m \in before : m <= j
           IN  /\ l[j].k = "dc"
               /\ j >= 2
               /\ l[j - 1] = [k |-> "cs", v |-> 0]
               /\ \A m \in (j + 1)..i : l[m].k = "spi" => l[m].dc = l[i].dc
               /\ l[i].dc = 0 => (i = j + 1 /\ Len(l[i].data) = 1)
        /\ after # {} =>
               LET m == CHOOSE m \in after : \A j \in after : m <= j
               IN  /\ l[m] = [k |-> "cs", v |-> 1]
                   /\ l[i].dc = 0 => m = i + 1

\* C8: with a chip-select line, every bus write happens with chip-select
\* low, each command byte and each data payload has its own assert/release
\* pair, and chip-select is high when set_rotation, set_window, show or the
\* initialization has returned normally.
C8_ChipSelectBrackets ==
    cfg.hasCs =>
        /\ \A i \in 1..Len(log) :
               log[i].k = "spi" => (log[i].cs = 0 /\ Bracketed(log, i))
        /\ (call.op \in {"init", "set_rotation", "set_window", "show"}
               /\ err = "ok") =>
               /\ cs = 1
               /\ log # <<>>
               /\ log[Len(log)] = [k |-> "cs", v |-> 1]

\* a register write with payload returned: two bus writes, the first one
\* opened by chip-select low, and chip-select high at the end
C8_Witness ==
    /\ cfg.hasCs
    /\ call.op = "set_rotation"
    /\ err = "ok"
    /\ cs = 1
    /\ Len(BusWrites(log)) = 2
    /\ log[1] = [k |-> "cs", v |-> 0]

InU16(v) == 0 <= v /\ v <= 65535

IsBE16Pair(d, a, b) ==
    /\ Len(d) = 4
    /\ \A i \in 1..4 : d[i] \in 0..255
    /\ d[1] * 256 + d[2] = a
    /\ d[3] * 256 + d[4] = b

\* C9: for start and end coordinates in 0..65535 a set_window(x, y, w, h)
\* that returned wrote exactly 0x2A, big-endian (x, x+w-1), 0x2B, big-endian
\* (y, y+h-1), 0x2C; (10,20,30,40) gives [0,10,0,39] and [0,20,0,59].
C9_WindowBytes ==
    (/\ call.op = "set_window"
     /\ err = "ok"
     /\ InU16(call.x) /\ InU16(call.x + call.w - 1)
     /\ InU16(call.y) /\ InU16(call.y + call.h - 1)) =>
        LET bw == BusWrites(log)
        IN  /\ Len(bw) = 5
            /\ IsCmd(bw[1], 42)
            /\ IsData(bw[2])
            /\ IsBE16Pair(bw[2].data, call.x, call.x + call.w - 1)
            /\ IsCmd(bw[3], 43)
            /\ IsData(bw[4])
            /\ IsBE16Pair(bw[4].data, call.y, call.y + call.h - 1)
            /\ IsCmd(bw[5], 44)
            /\ (call.x = 10 /\ call.y = 20 /\ call.w = 30 /\ call.h = 40) =>
                   (bw[2].data = <<0, 10, 0, 39>> /\ bw[4].data = <<0, 20, 0, 59>>)

\* set_window(255, 65535, 2, 1): a column pair across a byte boundary and
\* the last row
C9_Witness ==
    /\ call.op = "set_window"
    /\ err = "ok"
    /\ call.x = 255 /\ call.w = 2
    /\ call.y = 65535 /\ call.h = 1
    /\ BusWrites(log)[2].data = <<0, 255, 1, 0>>
    /\ BusWrites(log)[4].data = <<255, 255, 255, 255>>

\* C10: in every call, each run of pixel writes of show() comes right after
\* the bus writes 0x2A (0, width-1), 0x2B (0, height-1), 0x2C, with the
\* physical dimensions whatever the rotation, and 0 <= start <= end <
\* physical dimension on both axes.
C10_WindowBeforePixels ==
    LET bw == BusWrites(log)
    IN  \A i \in 1..Len(bw) :
           (bw[i].src = "pixels" /\ (i = 1 \/ bw[i - 1].src # "pixels")) =>
               /\ i >= 6
               /\ IsCmd(bw[i - 5], 42)
               /\ IsData(bw[i - 4])
               /\ IsBE16Pair(bw[i - 4].data, 0, cfg.width - 1)
               /\ IsCmd(bw[i - 3], 43)
               /\ IsData(bw[i - 2])
               /\ IsBE16Pair(bw[i - 2].data, 0, cfg.height - 1)
               /\ IsCmd(bw[i - 1], 44)
               /\ 0 <= cfg.width - 1 /\ 0 <= cfg.height - 1

\* a refresh of a 1x2 panel in rotation 1 (logical dimensions 2x1)
C10_Witness ==
    /\ call.op = "show"
    /\ err = "ok"
    /\ rotation = 1
    /\ cfg.width = 1 /\ cfg.height = 2
    /\ w = 2 /\ h = 1
    /\ \E i \in 1..Len(log) : log[i].k = "spi" /\ log[i].src = "pixels"

\* the command bytes the driver sends
Commands == {ST7789_SLPOUT, ST7789_COLMOD, ST7789_INVON, ST7789_MADCTL,
             ST7789_DISPON, ST7789_CASET, ST7789_RASET, ST7789_RAMWR}

\* C11: every command byte goes out with data/command = 0, every register
\* payload byte and every pixel byte of show() with data/command = 1.
C11_DataCommandLine ==
    \A i \in 1..Len(log) :
        log[i].k = "spi" =>
            /\ log[i].src = "cmd" =>
                   (log[i].dc = 0 /\ Len(log[i].data) = 1
                      /\ log[i].data[1] \in Commands)
            /\ log[i].src \in {"data", "pixels"} => log[i].dc = 1

\* a refresh that returned: its last command (memory-write) went out with
\* the line at 0 and the pixel bytes after it with the line at 1
C11_Witness ==
    /\ call.op = "show"
    /\ err = "ok"
    /\ \E i \in 1..Len(log) :
          /\ log[i].k = "spi" /\ log[i].src = "cmd" /\ log[i].dc = 0
          /\ \E j \in (i + 1)..Len(log) :
                log[j].k = "spi" /\ log[j].src = "pixels" /\ log[j].dc = 1

FailedWrites(l) == {i \in 1..Len(l) : l[i].k = "spi_err"}

\* C12: a bus write that fails ends the call with the bus error; the failed
\* write is the last thing the call does (no second attempt, no further bus
\* write), and the pixel store is as it was (after the black fill, in the
\* initialization).
C12_FailFast ==
    /\ (FailedWrites(log) # {}) <=> (err = "OSError")
    /\ FailedWrites(log) # {} =>
           /\ FailedWrites(log) = {Len(log)}
           /\ Len(BusWrites(log)) = call.failAt - 1
           /\ call.op # "init" => buffer = prev
           /\ call.op = "init" =>
                  /\ Len(buffer) = cfg.width * cfg.height * 2
                  /\ \A i \in 1..Len(buffer) : buffer[i] = 0

\* a refresh whose second pixel chunk failed
C12_Witness ==
    /\ call.op = "show"
    /\ err = "OSError"
    /\ call.failAt = 7
    /\ Len(BusWrites(log)) = 6
    /\ log[Len(log) - 1].k = "spi"
    /\ log[Len(log) - 1].src = "pixels"
    /\ log[Len(log)].k = "spi_err"
    /\ cs = 0

PinWrites(l) == SelectSeq(l, LAMBDA e : e.k = "pin")
ExpanderWrites(l) == SelectSeq(l, LAMBDA e : e.k \in {"pin", "i2c"})

\* C13: reset() without an expander collaborator raises a configuration
\* error, writes no pin and nothing to the bus, and changes neither the
\* buffer nor the rotation nor the logical dimensions (nor any line).
C13_ResetWithoutExpander ==
    [][(call'.op = "reset" /\ ~cfg.useXl) =>
          /\ err' = "RuntimeError"
          /\ log' = <<>>
          /\ UNCHANGED <<buffer, rotation, w, h, cs, dc, oc>>]_vars

\* reset() raised on a driver that was constructed without an expander
C13_Witness ==
    /\ call.op = "reset"
    /\ ~cfg.useXl
    /\ phase = "ready"
    /\ err = "RuntimeError"

\* C14: set_backlight(on) without an expander collaborator raises nothing,
\* writes no pin and nothing to the bus and changes no driver state (it
\* only warns); with one it writes exactly pin 11 to the requested level.
C14_Backlight ==
    [][call'.op = "set_backlight" =>
          /\ err' = "ok"
          /\ BusWrites(log') = <<>>
          /\ UNCHANGED <<buffer, rotation, w, h, cs, dc>>
          /\ IF cfg.useXl
             THEN /\ PinWrites(log') = <<[k |-> "pin", pin |-> 11, v |-> call'.on]>>
                  /\ BitOf(oc'[2], 3) = call'.on
                  /\ \A p \in 0..15 :
                         p # 11 => BitOf(oc'[p \div 8 + 1], p % 8)
                                     = BitOf(oc[p \div 8 + 1], p % 8)
             ELSE /\ ExpanderWrites(log') = <<>>
                  /\ log' = <<[k |-> "warn"]>>
                  /\ oc' = oc]_vars

\* the backlight switched off through the expander
C14_Witness ==
    /\ call.op = "set_backlight"
    /\ cfg.useXl
    /\ call.on = 0
    /\ err = "ok"
    /\ BitOf(oc[2], 3) = 0
    /\ BitOf(oc[2], 2) = 1

\* set_backlight() accepted on a driver without an expander
C14_WitnessNoExpander ==
    /\ call.op = "set_backlight"
    /\ ~cfg.useXl
    /\ err = "ok"

\* C15: no call changes the physical width or height, the buffer always
\* holds width*height*2 bytes, and set_rotation leaves every byte of it as
\* it was.
C15_PhysicalStoreFixed ==
    [][/\ cfg'.width = cfg.width
       /\ cfg'.height = cfg.height
       /\ Len(buffer') = cfg.width * cfg.height * 2
       /\ call'.op = "set_rotation" => buffer' = buffer]_vars

\* a panel that is not square, with a pixel drawn, turned to landscape
C15_Witness ==
    /\ call.op = "set_rotation"
    /\ err = "ok"
    /\ rotation = 1
    /\ cfg.width = 1
    /\ cfg.height = 2
    /\ w = 2
    /\ Len(buffer) = 4
    /\ PixelAt(buffer, 1) = 4660
    /\ PixelAt(buffer, 0) = 0

LevelsWritten(l, p) ==
    LET ws == SelectSeq(l, LAMBDA e : e.k = "pin" /\ e.pin = p)
    IN  [i \in 1..Len(ws) |-> ws[i].v]

\* C17: with an expander, reset() writes pin 10 low and then high, once
\* each and nothing else; the register bytes it sends differ from the
\* cached port byte in the bit of pin 10 only, so every other pin keeps its
\* level; after reset() and after a construction that returned the reset
\* line is high.
C17_ResetPulse ==
    [][cfg.useXl =>
          /\ call'.op = "reset" =>
                /\ err' = "ok"
                /\ log' = << [k |-> "pin", pin |-> 10, v |-> 0],
                             [k |-> "i2c", reg |-> 3, v |-> ClearBit(oc[2], 2)],
                             [k |-> "pin", pin |-> 10, v |-> 1],
                             [k |-> "i2c", reg |-> 3, v |-> SetBit(oc[2], 2)] >>
                /\ \A p \in 0..15 :
                       p # 10 => BitOf(oc'[p \div 8 + 1], p % 8)
                                   = BitOf(oc[p \div 8 + 1], p % 8)
          /\ (call'.op \in {"reset", "init"} /\ err' = "ok") =>
                /\ LevelsWritten(log', 10) = <<0, 1>>
                /\ BitOf(oc'[2], 2) = 1]_vars

\* a reset while the backlight is switched off
C17_Witness ==
    /\ call.op = "reset"
    /\ cfg.useXl
    /\ err = "ok"
    /\ Len(log) = 4
    /\ log[2].v = 243
    /\ log[4].v = 247
    /\ oc = <<255, 247>>

\* the output level the expander drives on pin p, and the cached one
CachedLevel(cache, p) == BitOf(cache[p \div 8 + 1], p % 8)
IsOutput(p) == BitOf(cc[p \div 8 + 1], p % 8) = 0

\* C18: write_pin(p, v) on a pin 0..15 sends one register write, to
\* 0x02 + p div 8, carrying the port's new byte, in which bit p mod 8 is v
\* (as 0/1) and every other bit is as before; the other port is untouched;
\* a read_pin(p) directly after it, p being an output, returns v as 0/1.
C18_WritePinReadPin ==
    [][/\ (call'.op = "write_pin" /\ call'.pin \in 0..15) =>
            LET p == call'.pin
                v == IF call'.value # 0 THEN 1 ELSE 0
            IN  /\ err' = "ok"
                /\ SelectSeq(log', LAMBDA e : e.k # "pin") =
                       << [k |-> "i2c", reg |-> 2 + p \div 8,
                           v |-> oc'[p \div 8 + 1]] >>
                /\ CachedLevel(oc', p) = v
                /\ \A q \in 0..15 :
                       q # p => CachedLevel(oc', q) = CachedLevel(oc, q)
                /\ oc'[1] \in 0..255 /\ oc'[2] \in 0..255
       /\ (call'.op = "read_pin" /\ call'.wrote # <<>> /\ call'.pin \in 0..15
              /\ IsOutput(call'.pin)) =>
            /\ err' = "ok"
            /\ ret' = << IF call'.wrote[1] # 0 THEN 1 ELSE 0 >>
            /\ log' = <<>>]_vars

\* an output pin on port 1 driven low and read back while its input
\* register bit is high
C18_Witness ==
    /\ call.op = "read_pin"
    /\ call.pin = 11
    /\ call.wrote = <<0>>
    /\ IsOutput(11)
    /\ BitOf(call.level, 3) = 1
    /\ ret = <<0>>
    /\ oc[2] = 247
    /\ dev[3] = 247

\* the key the pin table gives for the levels of the 16 lines: KEY0..KEY3
\* are on P17, P16, P15, P14, active low, the lowest-numbered key first
KeyOfTable(inputs) ==
    IF BitOf(inputs, P17) = 0 THEN 0
    ELSE IF BitOf(inputs, P16) = 0 THEN 1
    ELSE IF BitOf(inputs, P15) = 0 THEN 2
    ELSE IF BitOf(inputs, P14) = 0 THEN 3
    ELSE -1

\* C19: key_scan() returns the lowest-numbered key among KEY0..KEY3 (pins
\* 15, 14, 13, 12) whose line reads low, and -1 when all four read high,
\* whatever the levels of the other lines.
C19_KeyScanReportsKeys ==
    (call.op = "key_scan" /\ err = "ok") => ret = <<KeyOfTable(call.inputs)>>

\* what key_scan() returns instead: the lowest of the lines 9, 8, 1, 0 that
\* reads low decides, and the key lines 12..15 have no effect
C19_KeyScanReadsOtherLines ==
    (call.op = "key_scan" /\ err = "ok") =>
        /\ ret = << IF BitOf(call.inputs, 9) = 0 THEN 0
                    ELSE IF BitOf(call.inputs, 8) = 0 THEN 1
                    ELSE IF BitOf(call.inputs, 1) = 0 THEN 2
                    ELSE IF BitOf(call.inputs, 0) = 0 THEN 3
                    ELSE -1 >>
        /\ (call.inputs % 4096 = 4095) => ret = <<-1>>

\* the caches hold what the expander's registers hold
Coherent ==
    /\ oc = <<dev[2], dev[3]>>
    /\ cc = <<dev[6], dev[7]>>

\* C20: right after construction the direction cache is 0x03 / 0xF0, the
\* output cache 0xFF / 0xFF and both are what was last written to the
\* registers 0x06 / 0x07 and 0x02 / 0x03; every call that returns keeps the
\* caches equal to the last bytes written to those registers.
C20_CacheCoherence ==
    [][/\ call.op = "xl_init" =>
            /\ cc = <<3, 240>>
            /\ oc = <<255, 255>>
            /\ Coherent
       /\ (Coherent /\ err' = "ok") => Coherent']_vars

\* a port written as a whole after single pins were written and the
\* directions changed
C20_Witness ==
    /\ call.op = "set_output_port"
    /\ call.port = 1
    /\ err = "ok"
    /\ oc = <<127, 126>>
    /\ cc = <<0, 0>>
    /\ Coherent

====
